---- MODULE Spec2Model ----
(***************************************************************************)
(* Model of zxart-pallete: the palette loader, the colour mapper and the   *)
(* per-pixel colorize scan of src/zxart_pallete/zxart.py and main.py, and  *)
(* the Colorize handler of src/zxart_pallete/streamlit.py.                 *)
(***************************************************************************)
EXTENDS Integers, Sequences, FiniteSets, TLC

\* ------------------------------------------------------------------ bounds
\* Largest number of pixels (width * height) of an input image.
MaxPixels == 3
\* Largest number of colorize attempts of one session.
MaxCalls == 2
\* Longest string of sample characters handed to hex_to_rgb.
MaxStrLen == 6
\* Largest value of the bits above bit 23 of an integer handed to hex_to_rgb.
MaxHigh == 2

\* ------------------------------------------------------- program constants
\* The channel mask 0xFF of hex_to_rgb.
MASK == 255

\* The 15 role names, in the order both modules declare them.
REQUIRED_COLORS ==
  << "black", "white", "white_d", "red", "red_d", "green", "green_d",
     "blue", "blue_d", "cyan", "cyan_d", "magenta", "magenta_d",
     "yellow", "yellow_d" >>

RoleSet == { REQUIRED_COLORS[i] : i \in 1..Len(REQUIRED_COLORS) }

DEFAULT_PALLETE_NAME == "zx-spectrum"
DEFAULT_TARGET_PALLETE == "gruvbox"

\* ------------------------------------------------------------ raw values
\* A TOML value of a palette entry: a native integer or a string.
IntVal(n) == [t |-> "int", n |-> n, s |-> << >>]
StrVal(s) == [t |-> "str", n |-> 0, s |-> s]

\* ------------------------------------------------------------ exceptions
NoErr == [type |-> "none", msg |-> "none", arg |-> << >>]
Err(type, msg, arg) == [type |-> type, msg |-> msg, arg |-> arg]
Ok(v) == [ok |-> TRUE, val |-> v, err |-> NoErr]
Raise(e) == [ok |-> FALSE, val |-> << >>, err |-> e]

\* ------------------------------------------------------------ hex_to_rgb
LowerDigits ==
  << "0", "1", "2", "3", "4", "5", "6", "7", "8", "9",
     "a", "b", "c", "d", "e", "f" >>
UpperDigits ==
  << "0", "1", "2", "3", "4", "5", "6", "7", "8", "9",
     "A", "B", "C", "D", "E", "F" >>

IsHexDigit(ch) ==
  \E i \in 1..16 : LowerDigits[i] = ch \/ UpperDigits[i] = ch

DigitVal(ch) ==
  (CHOOSE i \in 1..16 : LowerDigits[i] = ch \/ UpperDigits[i] = ch) - 1

\* The digits of a base-16 literal, most significant first (Horner's rule).
RECURSIVE ParseDigits(_)
ParseDigits(s) ==
  IF s = << >> THEN 0
  ELSE 16 * ParseDigits(SubSeq(s, 1, Len(s) - 1)) + DigitVal(s[Len(s)])

Tail2(s) == SubSeq(s, 3, Len(s))

HasPrefix0x(s) ==
  Len(s) >= 2 /\ s[1] = "0" /\ (s[2] = "x" \/ s[2] = "X")

\* int(s, 16): an optional sign, an optional 0x prefix, one or more hex
\* digits; anything else raises ValueError.
IntBase16Unsigned(s) ==
  LET body == IF HasPrefix0x(s) THEN Tail2(s) ELSE s
  IN  IF body # << >> /\ \A i \in 1..Len(body) : IsHexDigit(body[i])
      THEN Ok(ParseDigits(body))
      ELSE Raise(Err("ValueError", "invalid_literal", s))

IntBase16(s) ==
  IF s # << >> /\ (s[1] = "-" \/ s[1] = "+")
  THEN LET u == IntBase16Unsigned(Tail(s))
       IN  IF ~u.ok THEN Raise(Err("ValueError", "invalid_literal", s))
           ELSE IF s[1] = "-" THEN Ok(0 - u.val) ELSE u
  ELSE IntBase16Unsigned(s)

\* x >> n on Python's unbounded integers.
ShiftRight(x, n) == x \div (2 ^ n)

\* x & m for a mask m >= 0, bit by bit.
RECURSIVE BitAnd(_, _)
BitAnd(x, m) ==
  IF m = 0 THEN 0
  ELSE (x % 2) * (m % 2) + 2 * BitAnd(x \div 2, m \div 2)

\* A decode that leaves the red channel unmasked.
rgb_red_unmasked(hex_value) ==
  << ShiftRight(hex_value, 16),
     BitAnd(ShiftRight(hex_value, 8), MASK),
     BitAnd(hex_value, MASK) >>

\* The decode of an integer already obtained.
rgb_of_int(hex_value) ==
  LET r == BitAnd(ShiftRight(hex_value, 16), MASK)
      g == BitAnd(ShiftRight(hex_value, 8), MASK)
      b == BitAnd(hex_value, MASK)
  IN  << r, g, b >>

hex_to_rgb(raw) ==
  IF raw.t = "int" THEN Ok(rgb_of_int(raw.n))
  ELSE LET p == IntBase16(raw.s)
       IN  IF p.ok THEN Ok(rgb_of_int(p.val)) ELSE Raise(p.err)

\* ------------------------------------------------------- dictionaries
\* A Python dict (insertion-ordered): a sequence of key/value pairs with
\* pairwise different keys.
HasKey(dct, key) == \E i \in 1..Len(dct) : dct[i].k = key

Lookup(dct, key) == dct[CHOOSE i \in 1..Len(dct) : dct[i].k = key].v

Keys(dct) == [i \in 1..Len(dct) |-> dct[i].k]

\* ------------------------------------------------------- palette loading
is_valid_pallete(p) ==
  \A i \in 1..Len(REQUIRED_COLORS) : HasKey(p, REQUIRED_COLORS[i])

\* The first failed decode of a sequence of decodes, 0 when none failed.
FirstFailure(ds) ==
  IF \E i \in 1..Len(ds) : ~ds[i].ok
  THEN CHOOSE i \in 1..Len(ds) :
         ~ds[i].ok /\ \A j \in 1..(i - 1) : ds[j].ok
  ELSE 0

\* The decoded items, or the exception of the first item that fails.
DecodeItems(items) ==
  LET ds  == [i \in 1..Len(items) |-> hex_to_rgb(items[i].v)]
      bad == FirstFailure(ds)
  IN  IF bad # 0 THEN Raise(ds[bad].err)
      ELSE Ok([i \in 1..Len(items) |-> [k |-> items[i].k, v |-> ds[i].val]])

\* data.get(name) is None or empty: `if not pallete`.
NotDefined(data, name) == ~HasKey(data, name) \/ Lookup(data, name) = << >>

\* zxart.py: every item of the entry is decoded, in the entry's order.
loaded_pallete_zxart(data, name) ==
  IF NotDefined(data, name)
  THEN Raise(Err("ValueError", "not_defined", << name >>))
  ELSE IF ~is_valid_pallete(Lookup(data, name))
  THEN Raise(Err("ValueError", "defined_incorrectly", << name >>))
  ELSE DecodeItems(Lookup(data, name))

\* main.py: the 15 fields are decoded one by one, in declaration order.
loaded_pallete_main(data, name) ==
  IF NotDefined(data, name)
  THEN Raise(Err("ValueError", "not_defined", << name >>))
  ELSE IF ~is_valid_pallete(Lookup(data, name))
  THEN Raise(Err("ValueError", "defined_incorrectly", << name >>))
  ELSE DecodeItems([i \in 1..Len(REQUIRED_COLORS) |->
                      [k |-> REQUIRED_COLORS[i],
                       v |-> Lookup(Lookup(data, name), REQUIRED_COLORS[i])]])

loaded_pallete(mod, data, name) ==
  IF mod = "main" THEN loaded_pallete_main(data, name)
  ELSE loaded_pallete_zxart(data, name)

\* streamlit.py: the palette names offered by the select box.
pallete_list(data) == Keys(data)

\* --------------------------------------------------------- colour mapping
\* zxart.py find_key: the first key, in the dict's order, holding val.
find_key(val, dct) ==
  IF dct = << >> \/ ~(\E i \in 1..Len(dct) : dct[i].v = val)
  THEN [found |-> FALSE, key |-> ""]
  ELSE [found |-> TRUE,
        key |-> dct[CHOOSE i \in 1..Len(dct) :
                      dct[i].v = val /\ \A j \in 1..(i - 1) : dct[j].v # val].k]

\* zxart.py: the colour of the matched key in the target palette.
match_pallete_color(c, source_pallete, target_pallete) ==
  LET matched == find_key(c, source_pallete)
  IN  IF ~matched.found \/ matched.key = ""
      THEN Raise(Err("ValueError", "unapplicable_color", c))
      ELSE IF ~HasKey(target_pallete, matched.key)
      THEN Raise(Err("KeyError", "key_error", << matched.key >>))
      ELSE Ok(Lookup(target_pallete, matched.key))

\* main.py: the branches of the if/elif chain, in order: the field of the
\* source palette compared and the field of the target palette returned.
ChainReturns(role) == IF role = "magenta_d" THEN "magenta" ELSE role

map_color_to_pallete(c, default_pallete, p) ==
  IF \E i \in 1..Len(REQUIRED_COLORS) :
       Lookup(default_pallete, REQUIRED_COLORS[i]) = c
  THEN LET first == CHOOSE i \in 1..Len(REQUIRED_COLORS) :
                      /\ Lookup(default_pallete, REQUIRED_COLORS[i]) = c
                      /\ \A j \in 1..(i - 1) :
                           Lookup(default_pallete, REQUIRED_COLORS[j]) # c
       IN  Ok(Lookup(p, ChainReturns(REQUIRED_COLORS[first])))
  ELSE Raise(Err("ValueError", "unapplicable_color", c))

map_color(mod, c, source_pallete, target_pallete) ==
  IF mod = "main" THEN map_color_to_pallete(c, source_pallete, target_pallete)
  ELSE match_pallete_color(c, source_pallete, target_pallete)

\* ------------------------------------------------------------------ images
\* An image: its size (width, height) and a colour at every position.
Positions(size) == (0..(size[1] - 1)) \X (0..(size[2] - 1))

NoImage == [size |-> << 0, 0 >>, px |-> [p \in Positions(<< 0, 0 >>) |-> << >>]]

\* iter_pixels: i over the width (outer), j over the height (inner); the
\* n-th position yielded, n counted from 0.
iter_pixels(size, n) == << n \div size[2], n % size[2] >>

NumPixels(size) == size[1] * size[2]

\* A read one column to the left of the position asked for.
getpixel_left(img, xy) ==
  img.px[<< IF xy[1] > 0 THEN xy[1] - 1 ELSE 0, xy[2] >>]

getpixel(img, xy) == img.px[xy]

putpixel(img, xy, color) == [img EXCEPT !.px[xy] = color]

\* i.copy().convert("RGB"): a new image of the same size holding the first
\* three channels of every pixel.
copy_convert_rgb(img) ==
  [size |-> img.size,
   px   |-> [p \in Positions(img.size) |-> SubSeq(img.px[p], 1, 3)]]

\* ----------------------------------------------------- palletes.toml
\* The configuration is an input of the program: the palettes below are the
\* sample contents the model draws it from.
Rgb(r, g, b) == r * 65536 + g * 256 + b

Entry(keys, vals) == [i \in 1..Len(keys) |-> [k |-> keys[i], v |-> vals[i]]]

\* Written order of an entry whose "yellow" line precedes "magenta_d".
YellowFirstOrder ==
  << "black", "white", "white_d", "red", "red_d", "green", "green_d",
     "blue", "blue_d", "cyan", "cyan_d", "magenta", "yellow", "magenta_d",
     "yellow_d" >>

ZxValues ==
  << IntVal(Rgb(0, 0, 0)),       IntVal(Rgb(255, 255, 255)),
     IntVal(Rgb(215, 215, 215)), IntVal(Rgb(255, 0, 0)),
     IntVal(Rgb(215, 0, 0)),     IntVal(Rgb(0, 255, 0)),
     IntVal(Rgb(0, 215, 0)),     IntVal(Rgb(0, 0, 255)),
     IntVal(Rgb(0, 0, 215)),     IntVal(Rgb(0, 255, 255)),
     IntVal(Rgb(0, 215, 215)),   IntVal(Rgb(255, 0, 255)),
     IntVal(Rgb(215, 0, 215)),   IntVal(Rgb(255, 255, 0)),
     IntVal(Rgb(215, 215, 0)) >>

\* The same values in the written order "yellow" before "magenta_d", with
\* "yellow" given the colour of "magenta_d".
ZxTieValues ==
  [ZxValues EXCEPT ![13] = IntVal(Rgb(215, 0, 215)),
                   ![14] = IntVal(Rgb(215, 0, 215))]

GruvboxValues ==
  << IntVal(Rgb(10, 10, 10)),    StrVal(<< "f", "b", "f", "1", "c", "7" >>),
     IntVal(Rgb(168, 153, 132)), IntVal(Rgb(200, 0, 0)),
     IntVal(Rgb(204, 36, 29)),   IntVal(Rgb(184, 187, 38)),
     IntVal(Rgb(152, 151, 26)),  IntVal(Rgb(131, 165, 152)),
     IntVal(Rgb(69, 133, 136)),  IntVal(Rgb(142, 192, 124)),
     IntVal(Rgb(104, 157, 106)), StrVal(<< "0", "x", "D", "3", "8", "6", "9", "B" >>),
     IntVal(Rgb(177, 98, 134)),  IntVal(Rgb(250, 189, 47)),
     IntVal(Rgb(215, 153, 33)) >>

\* A target whose colours are colours of the source palette, on other roles.
MirrorValues == [i \in 1..15 |-> ZxValues[((i + 11) % 15) + 1]]

ExtraItem(n) == << [k |-> "orange", v |-> IntVal(n)] >>

ZxEntry == Entry(REQUIRED_COLORS, ZxValues)
ZxTieEntry == Entry(YellowFirstOrder, ZxTieValues)
ZxExtraEntry == ZxEntry \o ExtraItem(Rgb(123, 45, 67))

GruvboxEntry == Entry(REQUIRED_COLORS, GruvboxValues)
MirrorEntry == Entry(REQUIRED_COLORS, MirrorValues) \o ExtraItem(Rgb(1, 2, 3))
\* An entry without "cyan_d".
PartialEntry == SelectSeq(GruvboxEntry, LAMBDA it : it.k # "cyan_d")
\* An entry with no roles at all.
EmptyEntry == << >>
\* An entry whose "white" is no base-16 literal.
MalformedEntry ==
  Entry(REQUIRED_COLORS, [GruvboxValues EXCEPT ![2] = StrVal(<< "z", "z" >>)])

Palletes(zx) ==
  << [k |-> DEFAULT_PALLETE_NAME, v |-> zx],
     [k |-> DEFAULT_TARGET_PALLETE, v |-> GruvboxEntry],
     [k |-> "mirror", v |-> MirrorEntry],
     [k |-> "partial", v |-> PartialEntry],
     [k |-> "empty", v |-> EmptyEntry],
     [k |-> "malformed", v |-> MalformedEntry] >>

Configs == { Palletes(ZxEntry), Palletes(ZxTieEntry), Palletes(ZxExtraEntry) }

\* The names a command line may pass: those of the table and one absent.
NameSet ==
  { DEFAULT_PALLETE_NAME, DEFAULT_TARGET_PALLETE, "mirror", "partial", "empty", "malformed",
    "nosuch" }

\* The colours the pixels of an input image are drawn from.
PixelColors == { << 0, 0, 0 >>, << 215, 0, 215 >>, << 123, 45, 67 >> }

\* The sizes of the input images: every width x height of at most MaxPixels
\* pixels, and the 2 x 2 square.
Sizes ==
  { s \in (1..MaxPixels) \X (1..MaxPixels) : s[1] * s[2] <= MaxPixels }
  \cup { << 2, 2 >> }

\* loaded_pallete over the inputs above, tabulated: the function is pure, so
\* a call is a look-up of its result.
Variants == { "main", "zxart" }

LoadedTable ==
  [v \in Variants, c \in Configs, nm \in NameSet |-> loaded_pallete(v, c, nm)]

Loaded(v, c, nm) == LoadedTable[v, c, nm]

Images ==
  UNION { { [size |-> s, px |-> f] : f \in [Positions(s) -> PixelColors] }
          : s \in Sizes }

\* ------------------------------------------------------------------ state
VARIABLES
  variant,          \* the module run: "main" (main.py) or "zxart" (zxart.py)
  surface,          \* its caller: "cli" (main()) or "ui" (streamlit.py)
  toml,             \* the contents of palletes.toml
  heap,             \* image objects: 1 the caller's image, 2 colorize's copy
  uploaded,         \* ui: an image file is uploaded
  DEFAULT_PALLETE,  \* the module global, << >> before the import
  pallete_name,     \* the palette name of the current attempt
  pallete,          \* the target palette loaded for the current attempt
  pc,               \* "boot", "idle", "read", "write", "exit", "crashed"
  res,              \* colorized_image's res: an object of the heap, 0 if none
  scan,             \* the number of positions iter_pixels has finished
  pixel,            \* the position and colour read last
  colors_,          \* main.py's _colors list
  outcome,          \* what the last attempt left: image, error shown, exception
  calls,            \* attempts made so far
  reads,            \* history: reads of each position by the current scan
  writes,           \* history: writes of each position by the current scan
  seen,             \* history: the first image returned for each palette name
  input0,           \* history: the caller's image as first handed over
  hexIn,            \* the argument of a hex_to_rgb call
  hexOut            \* its result

vars ==
  << variant, surface, toml, heap, uploaded, DEFAULT_PALLETE, pallete_name,
     pallete, pc, res, scan, pixel, colors_, outcome, calls, reads, writes,
     seen, input0, hexIn, hexOut >>

NoOutcome == [kind |-> "none", stage |-> "none", err |-> NoErr, img |-> 0]
NoPixel == [pos |-> << 0, 0 >>, color |-> << >>]
NoCall == [ok |-> FALSE, val |-> << >>, err |-> NoErr]
NotSeen == [img |-> NoImage, n |-> 0]
NoCounts == [q \in Positions(<< 0, 0 >>) |-> 0]
ZeroCounts(size) == [q \in Positions(size) |-> 0]

\* A copy that shares the object of the image copied.
same_object(obj) == obj

\* The object i.copy().convert("RGB") returns: a new one.
copy_object(obj) == obj + 1

Init ==
  /\ variant \in Variants
  /\ surface \in { "cli", "ui" }
  /\ surface = "ui" => variant = "zxart"
  /\ toml \in Configs
  /\ input0 \in Images
  /\ heap = [o \in 1..2 |-> IF o = 1 THEN input0 ELSE NoImage]
  /\ uploaded = (surface = "cli")
  /\ DEFAULT_PALLETE = << >>
  /\ pallete_name = ""
  /\ pallete = << >>
  /\ pc = "boot"
  /\ res = 0
  /\ scan = 0
  /\ pixel = NoPixel
  /\ colors_ = << >>
  /\ outcome = NoOutcome
  /\ calls = 0
  /\ reads = NoCounts
  /\ writes = NoCounts
  /\ seen = [nm \in NameSet |-> NotSeen]
  /\ hexIn = IntVal(0)
  /\ hexOut = NoCall

\* Where control goes when an attempt is over: the session waits for the next
\* click, the command-line process ends.
Rest == IF surface = "ui" THEN "idle" ELSE "exit"

\* The module is imported: DEFAULT_PALLETE = loaded_pallete("zx-spectrum").
Import ==
  /\ pc = "boot"
  /\ LET l == Loaded(variant, toml, DEFAULT_PALLETE_NAME)
     IN  IF l.ok
         THEN /\ DEFAULT_PALLETE' = l.val
              /\ pc' = "idle"
              /\ outcome' = NoOutcome
         ELSE /\ DEFAULT_PALLETE' = << >>
              /\ pc' = "crashed"
              /\ outcome' = [kind |-> "uncaught", stage |-> "import",
                             err |-> l.err, img |-> 0]
  /\ UNCHANGED << variant, surface, toml, heap, uploaded, pallete_name,
                  pallete, res, scan, pixel, colors_, calls, reads, writes,
                  seen, input0, hexIn, hexOut >>

\* ui: a file is put into the uploader.
Upload ==
  /\ pc = "idle"
  /\ surface = "ui"
  /\ ~uploaded
  /\ uploaded' = TRUE
  /\ UNCHANGED << variant, surface, toml, heap, DEFAULT_PALLETE, pallete_name,
                  pallete, pc, res, scan, pixel, colors_, outcome, calls,
                  reads, writes, seen, input0, hexIn, hexOut >>

\* The attempt ends before colorize starts.
EndEarly(kind, stage, err) ==
  /\ outcome' = [kind |-> kind, stage |-> stage, err |-> err, img |-> 0]
  /\ pc' = Rest
  /\ pallete' = << >>
  /\ UNCHANGED << heap, res, scan, pixel, colors_, reads, writes >>

\* colorized_image is entered: res = i.copy().convert("RGB").
EnterColorize(target) ==
  /\ pallete' = target
  /\ res' = copy_object(1)
  /\ heap' = [heap EXCEPT ![copy_object(1)] = copy_convert_rgb(heap[1])]
  /\ scan' = 0
  /\ pixel' = NoPixel
  /\ colors_' = << >>
  /\ reads' = ZeroCounts(heap[1].size)
  /\ writes' = ZeroCounts(heap[1].size)
  /\ outcome' = NoOutcome
  /\ pc' = "read"

\* The palette is loaded and, when that succeeds, colorize is entered.
LoadAndColorize(name) ==
  LET l == Loaded(variant, toml, name)
  IN  IF l.ok THEN EnterColorize(l.val)
      ELSE EndEarly("uncaught", "load", l.err)

\* main(): loaded_pallete(args.pallete), Image.open, colorized_image.
Main(name) ==
  /\ pc = "idle"
  /\ surface = "cli"
  /\ calls < MaxCalls
  /\ pallete_name' = name
  /\ calls' = calls + 1
  /\ LoadAndColorize(name)
  /\ UNCHANGED << variant, surface, toml, uploaded, DEFAULT_PALLETE, seen,
                  input0, hexIn, hexOut >>

\* streamlit.py: the Colorize button is pressed with name selected.
ColorizeButton(name) ==
  /\ pc = "idle"
  /\ surface = "ui"
  /\ calls < MaxCalls
  /\ pallete_name' = name
  /\ calls' = calls + 1
  /\ IF ~uploaded
     THEN EndEarly("st_error", "input",
                   Err("none", "need_to_upload_file", << >>))
     ELSE IF name = ""
     THEN EndEarly("st_error", "input",
                   Err("none", "need_to_select_pallete", << >>))
     ELSE LoadAndColorize(name)
  /\ UNCHANGED << variant, surface, toml, uploaded, DEFAULT_PALLETE, seen,
                  input0, hexIn, hexOut >>

\* The extent the scan ranges over: main.py iterates the input image,
\* zxart.py the copy.
ScanSize == IF variant = "main" THEN heap[1].size ELSE heap[res].size

\* The next position is yielded and its colour read from res.
ReadPixel ==
  /\ pc = "read"
  /\ scan < NumPixels(ScanSize)
  /\ LET xy == iter_pixels(ScanSize, scan)
         c  == getpixel(heap[res], xy)
     IN  /\ pixel' = [pos |-> xy, color |-> c]
         /\ reads' = [reads EXCEPT ![xy] = @ + 1]
         /\ colors_' = IF variant = "main" THEN Append(colors_, c) ELSE colors_
  /\ pc' = "write"
  /\ UNCHANGED << variant, surface, toml, heap, uploaded, DEFAULT_PALLETE,
                  pallete_name, pallete, res, scan, outcome, calls, writes,
                  seen, input0, hexIn, hexOut >>

\* The colour read is mapped and put back, or the mapping raises: the
\* exception leaves colorized_image and res is dropped.
WritePixel ==
  /\ pc = "write"
  /\ LET m == map_color(variant, pixel.color, DEFAULT_PALLETE, pallete)
     IN  IF m.ok
         THEN /\ heap' = [heap EXCEPT ![res] = putpixel(heap[res], pixel.pos, m.val)]
              /\ writes' = [writes EXCEPT ![pixel.pos] = @ + 1]
              /\ scan' = scan + 1
              /\ pc' = "read"
              /\ UNCHANGED << res, outcome >>
         ELSE /\ heap' = [heap EXCEPT ![res] = NoImage]
              /\ res' = 0
              /\ outcome' =
                   [kind  |-> IF surface = "ui" /\ m.err.type = "ValueError"
                              THEN "st_error" ELSE "uncaught",
                    stage |-> "colorize", err |-> m.err, img |-> 0]
              /\ pc' = Rest
              /\ UNCHANGED << writes, scan >>
  /\ UNCHANGED << variant, surface, toml, uploaded, DEFAULT_PALLETE,
                  pallete_name, pallete, pixel, colors_, calls, reads, seen,
                  input0, hexIn, hexOut >>

\* The scan is exhausted: res is returned, and shown (ui) or saved (cli).
Return ==
  /\ pc = "read"
  /\ scan = NumPixels(ScanSize)
  /\ outcome' = [kind |-> "image", stage |-> "colorize", err |-> NoErr,
                 img |-> res]
  /\ seen' = [seen EXCEPT ![pallete_name] =
                [img |-> IF @.n = 0 THEN heap[res] ELSE @.img, n |-> @.n + 1]]
  /\ pc' = Rest
  /\ UNCHANGED << variant, surface, toml, heap, uploaded, DEFAULT_PALLETE,
                  pallete_name, pallete, res, scan, pixel, colors_, calls,
                  reads, writes, input0, hexIn, hexOut >>

\* cli: the command is run again, in a new process.
Rerun ==
  /\ pc = "exit"
  /\ calls < MaxCalls
  /\ pc' = "boot"
  /\ DEFAULT_PALLETE' = << >>
  /\ pallete' = << >>
  /\ pallete_name' = ""
  /\ heap' = [heap EXCEPT ![2] = NoImage]
  /\ res' = 0
  /\ scan' = 0
  /\ pixel' = NoPixel
  /\ colors_' = << >>
  /\ outcome' = NoOutcome
  /\ reads' = NoCounts
  /\ writes' = NoCounts
  /\ UNCHANGED << variant, surface, toml, uploaded, calls, seen, input0,
                  hexIn, hexOut >>

Next ==
  \/ Import
  \/ Upload
  \/ \E name \in NameSet : Main(name)
  \/ \E i \in 1..Len(pallete_list(toml)) : ColorizeButton(pallete_list(toml)[i])
  \/ ReadPixel
  \/ WritePixel
  \/ Return
  \/ Rerun

Spec == Init /\ [][Next]_vars

\* ------------------------------------------- hex_to_rgb called on its own
\* The arguments tried: integers with every sample byte in every channel and
\* up to MaxHigh in the bits above bit 23, and strings of sample characters
\* (three digits and one character that is no digit), bare or 0x-prefixed.
\* Values stay below 2^31, the largest integer the model checker computes
\* with; Python's integers are unbounded.
ByteSamples == { 0, 1, 128, 255 }

HexIntegers ==
  { hi * 16777216 + Rgb(r, g, b) :
      hi \in 0..MaxHigh, r \in ByteSamples, g \in ByteSamples, b \in ByteSamples }

HexChars == { "0", "f", "A", "g" }

\* Seven-digit literals: values above 0xFFFFFF written as strings.
LongStrings ==
  { << "1", "f", "f", "0", "0", "0", "0" >>,
    << "A", "f", "f", "0", "0", "0", "0" >>,
    << "f", "0", "1", "2", "3", "4", "5" >> }

\* An argument of hex_to_rgb: an integer, a seven-digit literal, or a string
\* of len sample characters with or without the 0x prefix.
IsHexInput(x) ==
  \/ \E v \in HexIntegers : x = IntVal(v)
  \/ \E s \in LongStrings : x = StrVal(s)
  \/ \E len \in 0..MaxStrLen : \E s \in [1..len -> HexChars] :
       \/ x = StrVal(s)
       \/ x = StrVal(<< "0", "x" >> \o s)

OneBlackPixel == [size |-> << 1, 1 >>, px |-> [q \in Positions(<< 1, 1 >>) |-> << 0, 0, 0 >>]]

InitHex ==
  /\ IsHexInput(hexIn)
  /\ hexOut = NoCall
  /\ variant = "zxart"
  /\ surface = "cli"
  /\ toml = Palletes(ZxEntry)
  /\ input0 = OneBlackPixel
  /\ heap = [o \in 1..2 |-> IF o = 1 THEN input0 ELSE NoImage]
  /\ uploaded = TRUE
  /\ DEFAULT_PALLETE = << >>
  /\ pallete_name = ""
  /\ pallete = << >>
  /\ pc = "boot"
  /\ res = 0
  /\ scan = 0
  /\ pixel = NoPixel
  /\ colors_ = << >>
  /\ outcome = NoOutcome
  /\ calls = 0
  /\ reads = NoCounts
  /\ writes = NoCounts
  /\ seen = [nm \in NameSet |-> NotSeen]

\* hex_to_rgb(hexIn) returns or raises.
HexCall ==
  /\ hexOut = NoCall
  /\ hexOut' = hex_to_rgb(hexIn)
  /\ UNCHANGED << variant, surface, toml, heap, uploaded, DEFAULT_PALLETE,
                  pallete_name, pallete, pc, res, scan, pixel, colors_,
                  outcome, calls, reads, writes, seen, input0, hexIn >>

NextHex == HexCall

SpecHex == InitHex /\ [][NextHex]_vars

\* ================================================================ claims
\* Notions of the specification the claims are stated in.

\* resolve_role: the first role, in the canonical enumeration order, whose
\* colour in the palette is c; "" when no role has it.
resolve_role(c, pal) ==
  IF \E i \in 1..Len(REQUIRED_COLORS) :
       HasKey(pal, REQUIRED_COLORS[i]) /\ Lookup(pal, REQUIRED_COLORS[i]) = c
  THEN REQUIRED_COLORS[
         CHOOSE i \in 1..Len(REQUIRED_COLORS) :
           /\ Lookup(pal, REQUIRED_COLORS[i]) = c
           /\ \A j \in 1..(i - 1) : Lookup(pal, REQUIRED_COLORS[j]) # c]
  ELSE ""

IsRoleColor(c, pal) == resolve_role(c, pal) # ""

\* A colorize call is over (it returned or raised) and nothing has run since.
ColorizeOver == outcome.stage = "colorize"

\* The first position, in the order of the scan, whose input colour is no
\* role colour of the source palette.
FirstUnmappable ==
  iter_pixels(input0.size,
    CHOOSE n \in 0..(NumPixels(input0.size) - 1) :
      /\ ~IsRoleColor(input0.px[iter_pixels(input0.size, n)], DEFAULT_PALLETE)
      /\ \A m \in 0..(n - 1) :
           IsRoleColor(input0.px[iter_pixels(input0.size, m)], DEFAULT_PALLETE))

\* C1: when every pixel of the input holds a role colour of the source
\* palette, colorize returns an image of the input's size whose colour at
\* every position is the target colour of the role the input colour
\* occupies in the source palette.
C1_ColorizeMapsEveryPixel ==
  (ColorizeOver
     /\ \A q \in Positions(input0.size) : IsRoleColor(input0.px[q], DEFAULT_PALLETE))
  => /\ outcome.kind = "image"
     /\ heap[outcome.img].size = input0.size
     /\ \A q \in Positions(input0.size) :
          heap[outcome.img].px[q] =
            Lookup(pallete, resolve_role(input0.px[q], DEFAULT_PALLETE))

\* C2: for each of the 15 roles r, mapping the colour source[r] returns the
\* target colour of the role that colour resolves to; with 15 pairwise
\* distinct source colours that is target[r], magenta_d included.
C2_MapColorSameRole ==
  (pc \in { "read", "write" })
  => \A i \in 1..Len(REQUIRED_COLORS) :
       LET r == REQUIRED_COLORS[i]
           c == Lookup(DEFAULT_PALLETE, r)
           m == map_color(variant, c, DEFAULT_PALLETE, pallete)
       IN  /\ m = Ok(Lookup(pallete, resolve_role(c, DEFAULT_PALLETE)))
           /\ (\A j, k \in 1..Len(REQUIRED_COLORS) :
                 j # k => Lookup(DEFAULT_PALLETE, REQUIRED_COLORS[j])
                          # Lookup(DEFAULT_PALLETE, REQUIRED_COLORS[k]))
              => m = Ok(Lookup(pallete, r))

\* C3: when some pixel of the input holds no role colour of the source
\* palette, colorize raises the unmappable-colour error carrying the colour
\* of the first such pixel of the scan, returns no image, and leaves the
\* input image as it was.
C3_UnmappableFailsWhole ==
  (ColorizeOver
     /\ \E q \in Positions(input0.size) : ~IsRoleColor(input0.px[q], DEFAULT_PALLETE))
  => /\ outcome.kind # "image"
     /\ outcome.img = 0
     /\ outcome.err = Err("ValueError", "unapplicable_color", input0.px[FirstUnmappable])
     /\ heap[1] = input0

\* C4: resolving the colour of a role against its own palette yields the
\* first role, in the canonical enumeration order, that has this colour,
\* whatever the order the roles are written in.
C4_RoundTripCanonicalTieBreak ==
  (variant = "zxart" /\ DEFAULT_PALLETE # << >>)
  => \A i \in 1..Len(REQUIRED_COLORS) :
       LET c == Lookup(DEFAULT_PALLETE, REQUIRED_COLORS[i])
       IN  find_key(c, DEFAULT_PALLETE) =
             [found |-> TRUE, key |-> resolve_role(c, DEFAULT_PALLETE)]

\* C5: loading a name absent from the configuration fails with the
\* unknown-palette error, loading a name that is present but lacks a role
\* (or has none) fails with the incomplete-palette error, and in both
\* cases no palette is returned.
C5_LoadFailuresByCause ==
  (pallete_name # "" /\ outcome.stage # "input")
  => /\ ~HasKey(toml, pallete_name)
        => /\ outcome.stage = "load"
           /\ outcome.err = Err("ValueError", "not_defined", << pallete_name >>)
           /\ pallete = << >>
     /\ (HasKey(toml, pallete_name) /\ ~is_valid_pallete(Lookup(toml, pallete_name)))
        => /\ outcome.stage = "load"
           /\ outcome.err = Err("ValueError", "defined_incorrectly", << pallete_name >>)
           /\ pallete = << >>

\* A total mapping over exactly the 15 roles whose values are RGB triples.
IsFullPalette(pal) ==
  /\ { pal[i].k : i \in 1..Len(pal) } = RoleSet
  /\ Len(pal) = Len(REQUIRED_COLORS)
  /\ \A i \in 1..Len(pal) :
       /\ Len(pal[i].v) = 3
       /\ \A ch \in 1..3 : pal[i].v[ch] \in 0..255

\* C6: every palette loaded has each of the 15 roles as a key, no other
\* key, and an RGB triple of channels in 0..255 as every value.
C6_LoadedPaletteIsTotal ==
  /\ DEFAULT_PALLETE # << >> => IsFullPalette(DEFAULT_PALLETE)
  /\ pallete # << >> => IsFullPalette(pallete)

\* The value a string of hex digits denotes: each digit weighted by its
\* power of 16.
RECURSIVE Denoted(_)
Denoted(s) ==
  IF s = << >> THEN 0
  ELSE DigitVal(Head(s)) * (16 ^ (Len(s) - 1)) + Denoted(Tail(s))

HexBody(s) == IF HasPrefix0x(s) THEN SubSeq(s, 3, Len(s)) ELSE s

IsHexString(s) ==
  HexBody(s) # << >> /\ \A i \in 1..Len(HexBody(s)) : IsHexDigit(HexBody(s)[i])

Channels(v) == << (v \div 65536) % 256, (v \div 256) % 256, v % 256 >>

\* C7: hex_to_rgb of an integer v >= 0 is ((v >> 16) mod 256, (v >> 8) mod
\* 256, v mod 256), never an error, and hex_to_rgb of a hexadecimal string
\* denoting v is the same triple.
C7_HexDecodeMasks ==
  hexOut # NoCall
  => /\ (hexIn.t = "int" /\ hexIn.n >= 0) => hexOut = Ok(Channels(hexIn.n))
     /\ (hexIn.t = "str" /\ IsHexString(hexIn.s))
        => hexOut = Ok(Channels(Denoted(HexBody(hexIn.s))))

\* C7 witness: a seven-digit string whose top digit is masked away.
C7_Witness ==
  /\ hexIn = StrVal(<< "A", "f", "f", "0", "0", "0", "0" >>)
  /\ hexOut = Ok(<< 255, 0, 0 >>)

\* C8: at every moment the caller's image is as it was handed over, the
\* source palette and the target palette are as loaded, the image colorize
\* works on and returns is another object than the input, and an image
\* returned equals the one first returned for the same palette.
C8_NonDestructiveNoHiddenState ==
  /\ heap[1] = input0
  /\ pc \in { "idle", "read", "write", "exit" }
     => DEFAULT_PALLETE = Loaded(variant, toml, DEFAULT_PALLETE_NAME).val
  /\ (pc \in { "read", "write" } \/ outcome.kind = "image")
     => pallete = Loaded(variant, toml, pallete_name).val
  /\ res # 1
  /\ outcome.img # 1
  /\ outcome.kind = "image" => heap[outcome.img] = seen[pallete_name].img

\* C8 witness: a second call with the same palette has returned a recoloured
\* image, after a call that failed or returned.
C8_Witness ==
  /\ outcome.kind = "image"
  /\ seen[pallete_name].n = 2
  /\ heap[outcome.img] # input0

\* C9: in the interactive surface every failure of a Colorize attempt is
\* shown through the error display, none escapes the handler, and the
\* session then waits for the next attempt.
C9_UiShowsEveryFailure ==
  (surface = "ui" /\ outcome.stage \in { "load", "colorize" } /\ outcome.kind # "image")
  => /\ outcome.kind = "st_error"
     /\ pc = "idle"

\* C10: during the scan every position was read at most once and written
\* only after its read; a position written holds the mapped colour of its
\* input colour, a position not written holds its input colour, and the
\* colour read is always the input colour; when colorize returns, every
\* position was read once and written once.
C10_ScanInvariant ==
  /\ pc \in { "read", "write" }
     => /\ heap[res].size = input0.size
        /\ \A q \in Positions(input0.size) :
             /\ reads[q] <= 1
             /\ writes[q] <= reads[q]
             /\ writes[q] = 0 => heap[res].px[q] = input0.px[q]
             /\ writes[q] = 1
                => heap[res].px[q] =
                     map_color(variant, input0.px[q], DEFAULT_PALLETE, pallete).val
             /\ reads[q] > writes[q]
                => pc = "write" /\ pixel = [pos |-> q, color |-> input0.px[q]]
        /\ Cardinality({ q \in Positions(input0.size) : writes[q] = 1 }) = scan
        /\ Cardinality({ q \in Positions(input0.size) : reads[q] = 1 })
             = scan + (IF pc = "write" THEN 1 ELSE 0)
  /\ outcome.kind = "image"
     => \A q \in Positions(input0.size) : reads[q] = 1 /\ writes[q] = 1

\* C10 witness: the scan is past a position whose substituted colour is a
\* colour of the source palette, and has read the next position.
C10_Witness ==
  /\ pc = "write"
  /\ scan = 1
  /\ input0.px[<< 0, 0 >>] = << 0, 0, 0 >>
  /\ heap[res].px[<< 0, 0 >>] = << 215, 0, 215 >>
  /\ IsRoleColor(<< 215, 0, 215 >>, DEFAULT_PALLETE)
  /\ pixel.pos # << 0, 0 >>

====
